---- MODULE Spec2Model ----
(***************************************************************************)
(* The Keep actor of keep.go: the entry table, the message protocol        *)
(* (request / fetching / fetched), the fetch executor and the timer driven *)
(* expiry scheduler.                                                       *)
(*                                                                         *)
(* Time is the value returned by time.Now(), in seconds.  The clock is     *)
(* non-decreasing; two reads may return the same instant.  The model reads *)
(* it on a grid of ClockStep seconds.                                      *)
(***************************************************************************)
EXTENDS Integers, Sequences, FiniteSets, TLC

\* keep.go:154  const expireDuration = 10 s
expireDuration == 10

\* Granularity of the modelled clock: half a TTL.
ClockStep == expireDuration \div 2

\* Bounds of the model.
MaxTime == 15
MaxCount == 1

Paths == {"/a", "/b"}
Clients == {"c1", "c2"}
Bodies == {<<>>, <<1, 2, 3>>}

\* data *[]byte of a fetched message: nil, or a pointer to the bytes.
NilData == [present |-> FALSE, bytes |-> <<>>]
DataPtr(b) == [present |-> TRUE, bytes |-> b]

\* k.timer: nil is <<>>, an armed timer is <<deadline>>.
NoTimer == <<>>

VARIABLES
    now,        \* the clock (time.Now())
    entries,    \* k.entries: path -> entry
    timer,      \* k.timer
    panicked,   \* the run goroutine panicked (the process is dead)
    client,     \* the callers of the client-facing boundary, one reply channel each
    bg,         \* background executors launched by fetchExpired, per path
    actor,      \* where the run goroutine is: in its select, or in a send
    last        \* what the most recent actor step did (history)

vars == <<now, entries, timer, panicked, client, bg, actor, last>>

----------------------------------------------------------------------------
\* Upstream behaviours a run of Keep.fetch can meet.

\* strings.Split(contentType, ";")[0]: the part before the first ";".
RECURSIVE SplitHead(_)
SplitHead(ct) ==
    IF ct = <<>> \/ Head(ct) = ";" THEN <<>>
    ELSE <<Head(ct)>> \o SplitHead(Tail(ct))

JSON == <<"application/json">>

CharsetJSON == <<"application/json", ";", " charset=utf-8">>
NotJSON == <<"text/html", ";", "application/json">>

\* What one run of the executor meets: an error before any response, or a
\* response with a content type, a body and a body copy that succeeds or not.
Envs ==
    { [kind |-> k, ctype |-> <<>>, body |-> <<>>, copyOk |-> FALSE] :
          k \in {"constructErr", "transportErr"} }
    \cup
    { [kind |-> "response", ctype |-> NotJSON, body |-> <<1, 2, 3>>, copyOk |-> TRUE],
      [kind |-> "response", ctype |-> CharsetJSON, body |-> <<1, 2, 3>>, copyOk |-> FALSE] }
    \cup
    { [kind |-> "response", ctype |-> JSON, body |-> b, copyOk |-> TRUE] : b \in Bodies }

NoEnv == [kind |-> "none", ctype |-> <<>>, body |-> <<>>, copyOk |-> FALSE]

\* Keep.fetch without the deferred send: the early returns send nothing.
FetchNoDefer(path, hasSink, env) ==
    IF env.kind = "response" /\ SplitHead(env.ctype) = JSON /\ env.copyOk
    THEN [msgs |-> << [path |-> path, data |-> DataPtr(env.body)] >>,
          sink |-> IF hasSink THEN "200" ELSE "untouched",
          err |-> FALSE, cacheSet |-> TRUE]
    ELSE [msgs |-> << >>, sink |-> "untouched", err |-> TRUE, cacheSet |-> FALSE]

\* Keep.fetch (keep.go:83-137).  msgs: the fetched messages the run sends (the
\* deferred sendFetchedMessage); sink: what the live response sink received;
\* err: the returned error is non-nil; cacheSet: Cache.Set was started.
Fetch(path, hasSink, env) ==
    IF env.kind \in {"constructErr", "transportErr"} THEN
        [msgs |-> << [path |-> path, data |-> NilData] >>,
         sink |-> "untouched", err |-> TRUE, cacheSet |-> FALSE]
    ELSE IF SplitHead(env.ctype) # JSON THEN
        [msgs |-> << [path |-> path, data |-> NilData] >>,
         sink |-> IF hasSink THEN "400" ELSE "untouched",
         err |-> FALSE, cacheSet |-> FALSE]
    ELSE IF ~env.copyOk THEN
        [msgs |-> << [path |-> path, data |-> NilData] >>,
         sink |-> IF hasSink THEN "200" ELSE "untouched",
         err |-> FALSE, cacheSet |-> FALSE]
    ELSE
        [msgs |-> << [path |-> path, data |-> DataPtr(env.body)] >>,
         sink |-> IF hasSink THEN "200" ELSE "untouched",
         err |-> FALSE, cacheSet |-> TRUE]

\* An executor: a goroutine inside Keep.fetch.  phase "run": before the
\* upstream answered; phase "send": blocked in the deferred send of out.
NoExec == [phase |-> "none", out |-> <<>>, env |-> NoEnv]
NewExec == [phase |-> "run", out |-> <<>>, env |-> NoEnv]
RunExec(path, hasSink, env) ==
    LET r == Fetch(path, hasSink, env)
    IN  [phase |-> "send", out |-> r.msgs, env |-> env]

----------------------------------------------------------------------------
\* The entry table.

\* keep.go:208-212: a new entry, lastFetched = time.Now().
NewEntry(t) ==
    [count |-> 0, lastFetched |-> t, fetching |-> FALSE, waiters |-> <<>>]

\* The lookup with lastFetched stamped on every message (no `if !ok`).
LookupRestamp(ents, p, t) ==
    IF p \in DOMAIN ents THEN [ents[p] EXCEPT !.lastFetched = t] ELSE NewEntry(t)

\* keep.go:206-212
Lookup(ents, p, t) == IF p \in DOMAIN ents THEN ents[p] ELSE NewEntry(t)

\* keep.go:243
Store(ents, p, e) ==
    [q \in DOMAIN ents \cup {p} |-> IF q = p THEN e ELSE ents[q]]

\* The sweep's test without the skip of fetching entries.
IsExpiredNoSkip(e, t) == e.lastFetched + expireDuration < t

\* The sweep's test without the TTL: any entry stamped before now is taken.
IsExpiredNoTTL(e, t) == ~e.fetching /\ e.lastFetched < t

\* keep.go:143-146: the sweep's test on one entry.
IsExpired(e, t) == ~e.fetching /\ e.lastFetched + expireDuration < t

\* Keep.fetchExpired (keep.go:139-152) at clock reading t: the entries marked
\* fetching, and the paths a background fetch was launched for.
FetchExpired(ents, t) ==
    [entries |-> [p \in DOMAIN ents |->
                    IF IsExpired(ents[p], t)
                    THEN [ents[p] EXCEPT !.fetching = TRUE]
                    ELSE ents[p]],
     launched |-> {p \in DOMAIN ents : IsExpired(ents[p], t)}]

\* The loop keeping the latest lastFetched instead of the earliest.
RECURSIVE EarliestLoopLatest(_, _, _)
EarliestLoopLatest(ents, todo, acc) ==
    IF todo = {} THEN acc
    ELSE LET p == CHOOSE q \in todo : TRUE
             e == ents[p]
             nxt == IF e.fetching THEN acc
                    ELSE IF ~acc[2] /\ e.lastFetched < acc[1]
                         THEN <<e.lastFetched, TRUE>>
                    ELSE IF acc[2] /\ e.lastFetched > acc[1]
                         THEN <<e.lastFetched, TRUE>>
                    ELSE acc
         IN  EarliestLoopLatest(ents, todo \ {p}, nxt)

\* The loop of Keep.shortestTimeout (keep.go:160-168) over the entries left
\* to visit; acc is <<earliest, expiring>>.
RECURSIVE EarliestLoop(_, _, _)
EarliestLoop(ents, todo, acc) ==
    IF todo = {} THEN acc
    ELSE LET p == CHOOSE q \in todo : TRUE
             e == ents[p]
             nxt == IF e.fetching THEN acc
                    ELSE IF e.lastFetched < acc[1] THEN <<e.lastFetched, TRUE>>
                    ELSE acc
         IN  EarliestLoop(ents, todo \ {p}, nxt)

\* Keep.shortestTimeout (keep.go:156-174) at clock reading t.
ShortestTimeout(ents, t) ==
    LET acc == EarliestLoop(ents, DOMAIN ents, <<t, FALSE>>)
        expires == acc[1] + expireDuration
    IN  [duration |-> IF expires < t THEN 0 ELSE expires - t,
         expiring |-> acc[2]]

NoLaunch == [p \in Paths |-> 0]

AddLaunch(cnt, ps) == [p \in Paths |-> IF p \in ps THEN cnt[p] + 1 ELSE cnt[p]]

\* The loop of Keep.serviceTimer (keep.go:181-193).  t is the clock reading of
\* the iteration.  An iteration that finds a deadline due (duration = 0) goes
\* round again; with the clock unchanged the next iteration repeats it, so the
\* loop spins until the clock has advanced, and the next iteration that does
\* anything runs at the next clock reading.
RECURSIVE ServiceLoop(_, _, _, _)
ServiceLoop(ents, t, launched, spins) ==
    LET fe == FetchExpired(ents, t)
        st == ShortestTimeout(fe.entries, t)
        l2 == AddLaunch(launched, fe.launched)
    IN  IF ~st.expiring THEN
            [entries |-> fe.entries, timer |-> NoTimer, time |-> t,
             launched |-> l2, spins |-> spins, ran |-> TRUE]
        ELSE IF st.duration > 0 THEN
            [entries |-> fe.entries, timer |-> <<t + st.duration>>, time |-> t,
             launched |-> l2, spins |-> spins, ran |-> TRUE]
        ELSE ServiceLoop(fe.entries, t + ClockStep, l2, spins + 1)

\* The pass without the early return: it runs its loop on every call.
ServiceTimerAlways(ents, tm, t) == ServiceLoop(ents, t, NoLaunch, 0)

\* Keep.serviceTimer (keep.go:176-194).
ServiceTimer(ents, tm, t) ==
    IF tm # NoTimer THEN
        [entries |-> ents, timer |-> tm, time |-> t,
         launched |-> NoLaunch, spins |-> 0, ran |-> FALSE]
    ELSE ServiceLoop(ents, t, NoLaunch, 0)

----------------------------------------------------------------------------
\* Callers and executors.

\* A caller of the boundary with its reply channel.  st: "idle" (no channel in
\* use: none sent yet, or the last one delivered bytes or was closed after
\* waiting), "queued" (follower, its fetching message was taken but it has not
\* reached the receive on its channel yet), "waiting" (follower, blocked in
\* the receive on the channel), "leader" (the channel was closed at once: it
\* runs the executor ex).
IdleClient == [st |-> "idle", path |-> "/a", ex |-> NoExec]

\* The most recent step of the actor: the event (kind, path, sender, data),
\* the entry it stored at keep.go:243, the reply channels it closed and sent
\* to, the background fetches its scheduler pass launched, whether the pass
\* got past the early return, and how often its loop had to wait for the
\* clock.
\* The run goroutine waits in the select of keep.go:203.
AtSelect == [pc |-> "select", path |-> "/a", data |-> NilData, who |-> "none", idx |-> 0]

NoLast ==
    [kind |-> "init", path |-> "/a", who |-> "none", data |-> NilData,
     entry |-> NewEntry(0), closed |-> {}, sent |-> {},
     launched |-> NoLaunch, ran |-> TRUE, spins |-> 0]

Init ==
    /\ now = 0
    /\ entries = << >>
    /\ timer = NoTimer
    /\ panicked = FALSE
    /\ client = [c \in Clients |-> IdleClient]
    /\ bg = [p \in Paths |-> << >>]
    /\ actor = AtSelect
    /\ last = NoLast

\* The clock readings the scheduler pass of a handler may see after the
\* handler's own reading: the same instant, or a later one.
PassTimes == {now} \cup {t \in {now + ClockStep} : t <= MaxTime}

\* The background executors after a pass launched some (keep.go:149).
Launch(b, cnt) ==
    [p \in Paths |-> b[p] \o [i \in 1..cnt[p] |-> NewExec]]

\* The tail of every iteration of Keep.run (keep.go:243-247): store the entry
\* table ents the event left, then the scheduler pass at clock reading t.
\* b: the background executors, c: the callers, as the event left them.
AfterEvent(ents, tm, t, b, c, ev) ==
    \E r \in {ServiceTimer(ents, tm, t)} :
        /\ entries' = r.entries
        /\ timer' = r.timer
        /\ now' = r.time
        /\ bg' = Launch(b, r.launched)
        /\ client' = c
        /\ actor' = AtSelect
        /\ last' = [ev EXCEPT !.launched = r.launched, !.ran = r.ran,
                              !.spins = r.spins]
        /\ UNCHANGED panicked

Event(kind, p, who, data, e, closed, sent) ==
    [kind |-> kind, path |-> p, who |-> who, data |-> data, entry |-> e,
     closed |-> closed, sent |-> sent,
     launched |-> NoLaunch, ran |-> FALSE, spins |-> 0]

\* Time passes.
Tick ==
    /\ ~panicked
    /\ now + ClockStep <= MaxTime
    /\ now' = now + ClockStep
    /\ UNCHANGED <<entries, timer, panicked, client, bg, actor, last>>

\* The request case resetting the protocol state of the entry as well.
OnRequestReset(e) == [e EXCEPT !.count = @ + 1, !.fetching = FALSE, !.waiters = <<>>]

\* keep.go:214-215: a request message for p is received.
OnRequest(e) == [e EXCEPT !.count = @ + 1]

HandleRequest(p, t) ==
    /\ ~panicked
    /\ actor = AtSelect
    /\ Lookup(entries, p, now).count < MaxCount
    /\ LET e == OnRequest(Lookup(entries, p, now))
       IN  AfterEvent(Store(entries, p, e), timer, t, bg, client,
                      Event("request", p, "none", NilData, e, {}, {}))

\* The fetching case granting leadership and queueing the channel as well.
OnFetchingQueueLeader(e, c) ==
    IF e.fetching
    THEN [entry |-> [e EXCEPT !.waiters = Append(@, c)], closed |-> {}]
    ELSE [entry |-> [e EXCEPT !.fetching = TRUE, !.waiters = Append(@, c)],
          closed |-> {c}]

\* keep.go:216-223: a fetching message for p with waiter c.
OnFetching(e, c) ==
    IF e.fetching
    THEN [entry |-> [e EXCEPT !.waiters = Append(@, c)], closed |-> {}]
    ELSE [entry |-> [e EXCEPT !.fetching = TRUE], closed |-> {c}]

\* recv: a caller that is queued reaches the receive on its channel before
\* the next step of the system (TRUE), or is still on its way there (FALSE).
HandleFetching(c, p, t, recv) ==
    /\ ~panicked
    /\ actor = AtSelect
    /\ client[c].st = "idle"
    /\ LET r == OnFetching(Lookup(entries, p, now), c)
           cl == IF c \in r.closed
                 THEN [IdleClient EXCEPT !.st = "leader", !.path = p,
                                         !.ex = NewExec]
                 ELSE [IdleClient EXCEPT
                          !.st = IF recv THEN "waiting" ELSE "queued",
                          !.path = p]
       IN  AfterEvent(Store(entries, p, r.entry), timer, t, bg,
                      [client EXCEPT ![c] = cl],
                      Event("fetching", p, c, NilData, r.entry, r.closed, {}))

Range(f) == {f[i] : i \in DOMAIN f}

\* The fetched case without the final reslice of the waiters.
OnFetchedKeepWaiters(e, data, t) ==
    IF ~e.fetching
    THEN [panic |-> TRUE, entry |-> e, sent |-> {}, closed |-> {}]
    ELSE [panic |-> FALSE,
          entry |-> [e EXCEPT !.lastFetched = t, !.fetching = FALSE],
          sent |-> IF data.present THEN Range(e.waiters) ELSE {},
          closed |-> IF data.present THEN {} ELSE Range(e.waiters)]

\* The fetched case without the check that the entry is fetching.
OnFetchedNoPanic(e, data, t) ==
    [panic |-> FALSE,
     entry |-> [e EXCEPT !.lastFetched = t, !.fetching = FALSE,
                         !.waiters = <<>>],
     sent |-> IF data.present THEN Range(e.waiters) ELSE {},
     closed |-> IF data.present THEN {} ELSE Range(e.waiters)]

\* The fetched case without the new lastFetched stamp.
OnFetchedNoStamp(e, data, t) ==
    IF ~e.fetching
    THEN [panic |-> TRUE, entry |-> e, sent |-> {}, closed |-> {}]
    ELSE [panic |-> FALSE,
          entry |-> [e EXCEPT !.fetching = FALSE, !.waiters = <<>>],
          sent |-> IF data.present THEN Range(e.waiters) ELSE {},
          closed |-> IF data.present THEN {} ELSE Range(e.waiters)]

\* keep.go:224-241: a fetched message with data for an entry e.  panic: the
\* entry is not fetching; sent / closed: the waiters that were sent the bytes
\* or had their channel closed.
OnFetched(e, data, t) ==
    IF ~e.fetching
    THEN [panic |-> TRUE, entry |-> e, sent |-> {}, closed |-> {}]
    ELSE [panic |-> FALSE,
          entry |-> [e EXCEPT !.lastFetched = t, !.fetching = FALSE,
                              !.waiters = <<>>],
          sent |-> IF data.present THEN Range(e.waiters) ELSE {},
          closed |-> IF data.present THEN {} ELSE Range(e.waiters)]

\* The followers' side of the delivery: each waiter receives the bytes or sees
\* its channel closed, and is done with the channel.
Deliver(cl, r) ==
    [c \in Clients |-> IF c \in r.sent \cup r.closed THEN IdleClient ELSE cl[c]]

\* The first waiter of ws, from index i on, that is not in the receive on its
\* channel: the send of keep.go:236 to it cannot complete.  Len(ws) + 1 if
\* there is none.
NextStuck(ws, cl, i) ==
    LET stuck == {k \in i..Len(ws) : cl[ws[k]].st # "waiting"}
    IN  IF stuck = {} THEN Len(ws) + 1
        ELSE CHOOSE k \in stuck : \A m \in stuck : k <= m

\* The callers once the waiters in got have received the bytes.
Received(cl, got) ==
    [c \in Clients |-> IF c \in got THEN IdleClient ELSE cl[c]]

\* keep.go:228-236 with a waiter that is not receiving: the entry is stamped
\* and no longer fetching, the waiters before the stuck one have the bytes,
\* and the run goroutine is blocked in the send to the stuck one.
BlockInSend(p, data, who, cl, b) ==
    LET e == [OnFetched(entries[p], data, now).entry EXCEPT
                 !.waiters = entries[p].waiters]
        k == NextStuck(e.waiters, cl, 1)
        got == {e.waiters[j] : j \in 1..(k - 1)}
    IN  /\ actor' = [pc |-> "send", path |-> p, data |-> data, who |-> who,
                     idx |-> k]
        /\ entries' = Store(entries, p, e)
        /\ client' = Received(cl, got)
        /\ bg' = b
        /\ last' = Event("sending", p, who, data, e, {}, got)
        /\ UNCHANGED <<now, timer, panicked>>

\* The actor receives fetched(p, data): cl and b are the callers and the
\* background executors once the sender's send has completed.
ReceiveFetched(p, data, who, cl, b, t) ==
    LET r == OnFetched(Lookup(entries, p, now), data, now)
    IN  IF r.panic
        THEN /\ panicked' = TRUE
             /\ last' = Event("panic", p, who, data, r.entry, {}, {})
             /\ UNCHANGED <<now, entries, timer, client, bg, actor>>
        ELSE IF \E c \in r.sent : cl[c].st # "waiting"
        THEN BlockInSend(p, data, who, cl, b)
        ELSE AfterEvent(Store(entries, p, r.entry), timer, t, b,
                        Deliver(cl, r),
                        Event("fetched", p, who, data, r.entry, r.closed, r.sent))

RemoveAt(seq, i) == SubSeq(seq, 1, i - 1) \o SubSeq(seq, i + 1, Len(seq))

\* The fetched message of the leader c (keep.go:88, 78-81) is received.
HandleFetchedFromClient(c, t) ==
    /\ ~panicked
    /\ actor = AtSelect
    /\ client[c].st = "leader"
    /\ client[c].ex.phase = "send"
    /\ client[c].ex.out # <<>>
    /\ LET m == Head(client[c].ex.out)
       IN  ReceiveFetched(m.path, m.data, c,
                          [client EXCEPT ![c] = IdleClient], bg, t)

\* The fetched message of the i-th background executor of p is received.
HandleFetchedFromBg(p, i, t) ==
    /\ ~panicked
    /\ actor = AtSelect
    /\ i \in DOMAIN bg[p]
    /\ bg[p][i].phase = "send"
    /\ bg[p][i].out # <<>>
    /\ LET m == Head(bg[p][i].out)
       IN  ReceiveFetched(m.path, m.data, "bg", client,
                          [bg EXCEPT ![p] = RemoveAt(@, i)], t)

\* keep.go:244-247: the timer fires.
TimerFire ==
    /\ ~panicked
    /\ actor = AtSelect
    /\ timer # NoTimer
    /\ now >= timer[1]
    /\ AfterEvent(entries, NoTimer, now, bg, client,
                  Event("timer", "/a", "none", NilData, NewEntry(0), {}, {}))

\* The leader c runs Keep.fetch up to the deferred send.
ClientFetch(c, hasSink, env) ==
    /\ ~panicked
    /\ client[c].st = "leader"
    /\ client[c].ex.phase = "run"
    /\ client' = [client EXCEPT ![c].ex = RunExec(client[c].path, hasSink, env)]
    /\ UNCHANGED <<now, entries, timer, panicked, bg, actor, last>>

\* The i-th background executor of p runs Keep.fetch(p, nil) up to the
\* deferred send.
BgFetch(p, i, env) ==
    /\ ~panicked
    /\ i \in DOMAIN bg[p]
    /\ bg[p][i].phase = "run"
    /\ bg' = [bg EXCEPT ![p][i] = RunExec(p, FALSE, env)]
    /\ UNCHANGED <<now, entries, timer, panicked, client, actor, last>>

\* A queued follower reaches the receive on its reply channel.
ClientReceive(c) ==
    /\ ~panicked
    /\ client[c].st = "queued"
    /\ client' = [client EXCEPT ![c].st = "waiting"]
    /\ UNCHANGED <<now, entries, timer, panicked, bg, actor, last>>

\* The send the run goroutine is blocked in completes, the waiter being in
\* its receive now, and the delivery loop goes on (keep.go:233-240): to the
\* end, followed by the reslice, the store and the scheduler pass
\* (keep.go:241-247), or up to the next waiter that is not receiving.
ContinueSend(t) ==
    /\ ~panicked
    /\ actor.pc = "send"
    /\ LET p == actor.path
           ws == entries[p].waiters
           k == NextStuck(ws, client, actor.idx)
           got == {ws[j] : j \in actor.idx..(k - 1)}
           e == [entries[p] EXCEPT !.waiters = <<>>]
       IN  /\ k > actor.idx
           /\ IF k > Len(ws)
              THEN AfterEvent(Store(entries, p, e), timer, t, bg,
                              Received(client, got),
                              Event("fetched", p, actor.who, actor.data, e,
                                    {}, Range(ws)))
              ELSE /\ actor' = [actor EXCEPT !.idx = k]
                   /\ client' = Received(client, got)
                   /\ last' = [last EXCEPT !.sent = @ \cup got]
                   /\ UNCHANGED <<now, entries, timer, panicked, bg>>

\* A sender that holds no grant sends fetched(p, data): a protocol violation
\* unless p happens to be fetching.
RogueFetched(p, data, t) ==
    /\ ~panicked
    /\ actor = AtSelect
    /\ ReceiveFetched(p, data, "rogue", client, bg, t)

Next ==
    \/ Tick
    \/ \E p \in Paths, t \in PassTimes : HandleRequest(p, t)
    \/ \E c \in Clients, p \in Paths, t \in PassTimes, recv \in BOOLEAN :
          HandleFetching(c, p, t, recv)
    \/ \E c \in Clients, t \in PassTimes : HandleFetchedFromClient(c, t)
    \/ \E p \in Paths, t \in PassTimes : \E i \in DOMAIN bg[p] : HandleFetchedFromBg(p, i, t)
    \/ TimerFire
    \/ \E c \in Clients, hasSink \in BOOLEAN, env \in Envs : ClientFetch(c, hasSink, env)
    \/ \E p \in Paths, env \in Envs : \E i \in DOMAIN bg[p] : BgFetch(p, i, env)
    \/ \E c \in Clients : ClientReceive(c)
    \/ \E t \in PassTimes : ContinueSend(t)

Spec == Init /\ [][Next]_vars


\* The system with one path and two upstream behaviours (a transport error and
\* a JSON body), for the properties of whole behaviours.
LivePaths == {"/a"}
LiveEnvs ==
    {e \in Envs : e.kind = "transportErr" \/ (e.ctype = JSON /\ e.body = <<1, 2, 3>>)}

NextLive ==
    \/ Tick
    \/ \E p \in LivePaths, t \in PassTimes : HandleRequest(p, t)
    \/ \E c \in Clients, p \in LivePaths, t \in PassTimes, recv \in BOOLEAN :
          HandleFetching(c, p, t, recv)
    \/ \E c \in Clients, t \in PassTimes : HandleFetchedFromClient(c, t)
    \/ \E p \in LivePaths, t \in PassTimes : \E i \in DOMAIN bg[p] : HandleFetchedFromBg(p, i, t)
    \/ TimerFire
    \/ \E c \in Clients, hasSink \in BOOLEAN, env \in LiveEnvs : ClientFetch(c, hasSink, env)
    \/ \E p \in LivePaths, env \in LiveEnvs : \E i \in DOMAIN bg[p] : BgFetch(p, i, env)
    \/ \E c \in Clients : ClientReceive(c)
    \/ \E t \in PassTimes : ContinueSend(t)

\* A leader runs the executor, the run terminates (the HTTP client returns),
\* and the actor, back in its select after every step, receives the fetched
\* message the executor is blocked sending.
ClientProgress(c) ==
    \/ \E hasSink \in BOOLEAN, env \in LiveEnvs : ClientFetch(c, hasSink, env)
    \/ \E t \in PassTimes : HandleFetchedFromClient(c, t)

\* The same for the background executors of p.
BgProgress(p) ==
    \/ \E env \in LiveEnvs : \E i \in DOMAIN bg[p] : BgFetch(p, i, env)
    \/ \E t \in PassTimes : \E i \in DOMAIN bg[p] : HandleFetchedFromBg(p, i, t)

\* A queued follower goes on to the receive on its channel, and the run
\* goroutine resumes a send as soon as its receiver is there.
Fairness ==
    /\ \A c \in Clients : WF_vars(ClientProgress(c))
    /\ \A p \in LivePaths : WF_vars(BgProgress(p))
    /\ \A c \in Clients : WF_vars(ClientReceive(c))
    /\ WF_vars(\E t \in PassTimes : ContinueSend(t))

SpecLive == Init /\ [][NextLive]_vars /\ Fairness

\* The one-path system with, in addition, senders that break the protocol.
NextRogue ==
    \/ NextLive
    \/ \E p \in Paths, d \in {NilData, DataPtr(<<1, 2, 3>>)}, t \in PassTimes :
          RogueFetched(p, d, t)

SpecRogue == Init /\ [][NextRogue]_vars

----------------------------------------------------------------------------
\* Vocabulary of the properties.

\* A step of the actor (a message or a timer fire was processed): every such
\* step changes the table, the timer or panicked, and no other step does.
IsActorStep == <<entries, timer, panicked>>' # <<entries, timer, panicked>>

\* A step of the actor that ran to the end of its iteration: the event was
\* handled completely and the scheduler pass was called (keep.go:247).
PassStep == IsActorStep /\ ~panicked' /\ actor' = AtSelect

\* The followers of p: the callers whose channel is queued on p and has had
\* no outcome yet, on their way to the receive or in it.
FollowersOn(cl, p) ==
    {c \in Clients : cl[c].st \in {"queued", "waiting"} /\ cl[c].path = p}

\* The reply channels an unfinished fetched case has sent the bytes to.
SentSoFar == IF actor.pc = "send" THEN last.sent ELSE {}

\* The runs of the executor for p that are outstanding: launched by a leader
\* grant or by the sweep, fetched message not yet processed.
LeadersIn(cl, p) == {c \in Clients : cl[c].st = "leader" /\ cl[c].path = p}
OutstandingIn(cl, b, p) == Cardinality(LeadersIn(cl, p)) + Len(b[p])
Outstanding(p) == OutstandingIn(client, bg, p)

\* The executors blocked in their deferred send, each with its path.
SendingExecs ==
    {<<client[c].path, client[c].ex>> :
        c \in {d \in Clients : client[d].ex.phase = "send"}}
    \cup UNION {{<<p, bg[p][i]>> :
                    i \in {j \in DOMAIN bg[p] : bg[p][j].phase = "send"}} :
                p \in Paths}

\* The entry of p the event of a step finds: the stored one, or a new one.
Found(p) == Lookup(entries, p, now)

IsFetching(p) == p \in DOMAIN entries /\ entries[p].fetching

\* The table as the event of a step left it (keep.go:243), before the pass.
MidEntries ==
    IF last'.kind = "timer" THEN entries
    ELSE Store(entries, last'.path, last'.entry)

----------------------------------------------------------------------------
\* At most one run of the executor is outstanding per path, and an entry is
\* fetching exactly while one is.
OneFetchPerPath ==
    \A p \in Paths :
        /\ Outstanding(p) <= 1
        /\ Outstanding(p) = 1 <=> IsFetching(p)

\* A fetching message processed while the entry is fetching closes no reply
\* channel, appends its channel to the waiters and starts no executor.
FollowerIsQueued ==
    (IsActorStep /\ last'.kind = "fetching" /\ Found(last'.path).fetching)
        => /\ last'.closed = {}
           /\ last'.entry.waiters = Append(Found(last'.path).waiters, last'.who)
           /\ client'[last'.who].st \in {"queued", "waiting"}
           /\ OutstandingIn(client', bg', last'.path) = Outstanding(last'.path)

\* C1.  At-most-one-fetch: in every reachable state at most one run of the
\* executor is outstanding for each path; a fetching message processed while
\* the entry has fetching = TRUE never grants leadership, it is appended to
\* the entry's waiters.
AtMostOneFetch == []OneFetchPerPath /\ [][FollowerIsQueued]_vars

\* C1 witness: a fetch is outstanding for a path and the last fetching message
\* was queued behind it.
AtMostOneFetchWitness ==
    /\ last.kind = "fetching"
    /\ last.closed = {}
    /\ Outstanding(last.path) = 1
    /\ last.who \in Range(entries[last.path].waiters)

\* What the steps that process a fetched message do to the waiters.  The
\* step that completes the case (kind "fetched") has sent the bytes to, or
\* closed, every queued channel, and stores the entry with no waiters and
\* fetching = FALSE.  When a waiter is not receiving, the case is completed
\* in several steps (kind "sending"), each sending the bytes to queued
\* channels whose callers are receiving and that have not had them yet.
FanOutStep ==
    /\ (IsActorStep /\ last'.kind = "fetched")
        => LET ws == Range(Found(last'.path).waiters)
           IN  /\ last'.data.present => (last'.sent = ws /\ last'.closed = {})
               /\ ~last'.data.present => (last'.closed = ws /\ last'.sent = {})
               /\ Cardinality(ws) = Len(Found(last'.path).waiters)
               /\ \A c \in ws \ SentSoFar :
                     /\ client[c].st \in {"queued", "waiting"}
                     /\ last'.data.present => client[c].st = "waiting"
               /\ \A c \in ws : client'[c].st = "idle"
               /\ last'.entry.waiters = <<>>
               /\ last'.entry.fetching = FALSE
               /\ entries'[last'.path].waiters = <<>>
    /\ (last'.kind = "sending" /\ last' # last)
        => /\ last'.data.present
           /\ last'.closed = {}
           /\ SentSoFar \subseteq last'.sent
           /\ last'.sent \subseteq Range(Found(last'.path).waiters)
           /\ entries'[last'.path].waiters = Found(last'.path).waiters
           /\ \A c \in last'.sent \ SentSoFar :
                 client[c].st = "waiting" /\ client'[c].st = "idle"

\* C2.  Waiter fan-out: a fetched message with data D sends D to every reply
\* channel queued on the path (all of them, nothing else), one without data
\* closes every one of them; the entry is stored with no waiters and
\* fetching = FALSE.
WaiterFanOut == [][FanOutStep]_vars

\* C2 witness: two followers were sent the bytes <<1, 2, 3>> by one fetched
\* message.
WaiterFanOutWitness ==
    /\ last.kind = "fetched"
    /\ last.data = DataPtr(<<1, 2, 3>>)
    /\ Cardinality(last.sent) = 2

\* Two followers had their channels closed by one fetched message without data.
WaiterFanOutClosedWitness ==
    /\ last.kind = "fetched"
    /\ ~last.data.present
    /\ Cardinality(last.closed) = 2

\* What a step does that processes a fetching message for a path with no
\* outstanding fetch.
LeaderStep ==
    (IsActorStep /\ last'.kind = "fetching" /\ ~Found(last'.path).fetching)
        => /\ last'.closed = {last'.who}
           /\ last'.sent = {}
           /\ last'.entry.fetching
           /\ last'.entry.waiters = Found(last'.path).waiters
           /\ last'.who \notin Range(last'.entry.waiters)
           /\ Outstanding(last'.path) = 0
           /\ LeadersIn(client', last'.path) = {last'.who}
           /\ bg'[last'.path] = <<>>
           /\ client'[last'.who].ex = NewExec

\* C3.  The leader signal is immediate: a fetching message processed while the
\* path has no outstanding fetch (a new path included) closes the reply
\* channel in that step, the entry becomes fetching = TRUE, the channel is not
\* added to the waiters, and no executor for the path has started: none was
\* outstanding, and the only one afterwards is the sender's, not yet run.
LeaderSignalImmediate == [][LeaderStep]_vars

\* C3 witness: a caller was made leader for a path seen for the first time.
LeaderSignalWitness ==
    /\ last.kind = "fetching"
    /\ last.closed = {last.who}
    /\ last.entry.count = 0
    /\ client[last.who].st = "leader"
    /\ client[last.who].ex.phase = "run"

\* The response was JSON and its body was copied.
GoodResponse(env) ==
    env.kind = "response" /\ env.ctype \in {JSON, CharsetJSON} /\ env.copyOk

\* C4.  Every run of the executor sends exactly one fetched message, for its
\* own path, on every exit path; the message carries the body if the response
\* was JSON and the body copy succeeded, and no data otherwise.
OneFetchedPerRun ==
    \A pe \in SendingExecs :
        /\ Len(pe[2].out) = 1
        /\ pe[2].out[1].path = pe[1]
        /\ pe[2].out[1].data =
              IF GoodResponse(pe[2].env) THEN DataPtr(pe[2].env.body) ELSE NilData

\* C4 witness: one executor finished on the non-JSON exit and one on the
\* success exit.
OneFetchedPerRunWitness ==
    /\ \E pe \in SendingExecs : pe[2].env.ctype = NotJSON /\ ~pe[2].out[1].data.present
    /\ \E pe \in SendingExecs : pe[2].out[1].data.present

\* C5.  Liveness of the fetch protocol: under the scheduling of SpecLive every
\* fetching entry eventually is not fetching, and every follower queued in
\* waiters eventually gets its outcome (the bytes, or its channel closed).
FetchProtocolLive ==
    /\ \A p \in Paths : IsFetching(p) ~> ~IsFetching(p)
    /\ \A c \in Clients :
          (client[c].st \in {"queued", "waiting"}) ~> (client[c].st = "idle")

\* C5 witness: a follower has been released by the fetched message of a
\* background fetch, and the entry is no longer fetching.
FetchProtocolLiveWitness ==
    /\ last.kind = "fetched"
    /\ last.who = "bg"
    /\ last.sent \cup last.closed # {}
    /\ ~IsFetching(last.path)

\* C6 as stated.  Proactive refresh: whenever the actor is back waiting with
\* some entry in the table that is not fetching, a wake-up that will sweep it
\* is pending (the timer is armed).
RefreshIsPending ==
    (\E p \in DOMAIN entries : ~entries[p].fetching) => timer # NoTimer

\* What the step does that takes a fetched message from the channel: it
\* panics exactly if the entry is not fetching, and then changes nothing else.
FatalStep ==
    (IsActorStep /\ actor = AtSelect /\ last'.kind \in {"fetched", "sending", "panic"})
        => /\ panicked' <=> ~Found(last'.path).fetching
           /\ last'.kind = "panic" <=> panicked'
           /\ panicked' =>
                 /\ last'.closed = {} /\ last'.sent = {}
                 /\ UNCHANGED <<now, entries, timer, client, bg>>

\* C7.  A protocol violation is fatal: a fetched message for a path whose entry
\* is not fetching (or that has no entry) stops the actor; the step sends to
\* no waiter and closes none, does not modify the table, and once the actor
\* has panicked no message or timer fire is processed.
ViolationIsFatal == [][FatalStep /\ ~panicked]_vars

\* C7 witness: the actor panicked on a fetched message for a path with no
\* entry, with a follower waiting and a leader blocked in its send.
ViolationIsFatalWitness ==
    /\ panicked
    /\ last.kind = "panic"
    /\ last.path \notin DOMAIN entries
    /\ \E c \in Clients : client[c].st = "waiting"
    /\ \E c \in Clients : client[c].ex.phase = "send"

\* What any step does to lastFetched of the entries in the table.
LastFetchedStep ==
    \A p \in DOMAIN entries :
        /\ p \in DOMAIN entries'
        /\ entries'[p].lastFetched >= entries[p].lastFetched
        /\ entries'[p].lastFetched # entries[p].lastFetched
              => (last'.kind \in {"fetched", "sending"} /\ last'.path = p
                    /\ actor = AtSelect)

\* C8.  Monotonic lastFetched: lastFetched of an entry never decreases, and
\* after the entry's creation it changes only in the step that processes a
\* fetched message for its path.
MonotonicLastFetched == [][LastFetchedStep]_vars

\* C8 witness: a fetched message moved lastFetched of an entry that had been
\* requested before.
MonotonicLastFetchedWitness ==
    /\ last.kind = "fetched"
    /\ last.entry.count = 1
    /\ last.entry.lastFetched > 0
    /\ entries[last.path].lastFetched = last.entry.lastFetched

\* A scheduler pass run on the table ents with the timer tm at clock reading t
\* launches no fetch, changes no entry and leaves the timer as it is.
SecondPassIsNoOpAt(ents, tm, t) ==
    \E r \in {ServiceTimer(ents, tm, t)} :
        /\ r.launched = NoLaunch
        /\ r.entries = ents
        /\ r.timer = tm
        /\ r.time = t

\* The same for a pass run now.
SecondPassIsNoOp == SecondPassIsNoOpAt(entries, timer, now)

\* C9.  Refresh idempotence: right after the scheduler pass of a step (and
\* after the initial one), with no time elapsed and no message in between, a
\* second pass is a no-op.
RefreshIdempotent ==
    /\ Init => SecondPassIsNoOp
    /\ [][PassStep => SecondPassIsNoOpAt(entries', timer', now')]_vars

\* C9 witness: a pass that swept an entry and armed no timer has just run, so
\* a second pass would run the sweep again.
RefreshIdempotentWitness ==
    /\ last.ran
    /\ last.launched # NoLaunch
    /\ timer = NoTimer
    /\ \E p \in DOMAIN entries : ~entries[p].fetching

\* The pass of a step swept p: it marked p fetching and launched exactly one
\* background fetch for it.
SweptIn(p) ==
    /\ last'.launched[p] = 1
    /\ entries'[p].fetching
    /\ Len(bg'[p]) = 1
    /\ bg'[p][1] = NewExec

\* C10 as stated.  Scenario D: the scheduler pass that follows the next
\* processed message or timer fire sweeps every entry that is older than the
\* TTL and not fetching (exactly one background fetch each), and never an
\* entry that is fetching.
SweepEveryPass ==
    [][PassStep =>
          \A p \in DOMAIN MidEntries :
              /\ MidEntries[p].fetching => last'.launched[p] = 0
              /\ (~MidEntries[p].fetching
                    /\ MidEntries[p].lastFetched + expireDuration < now)
                   => SweptIn(p)]_vars

\* C10 as amended.  The scheduler pass gets past its early return exactly when
\* it finds no timer armed (after a timer fire, or after a message while no
\* timer is armed); such a pass sweeps every entry that is older than the TTL
\* and not fetching, with exactly one background fetch each; a pass that
\* finds the timer armed sweeps nothing; no pass sweeps a fetching entry.
SweepWhenNoTimer ==
    [][PassStep =>
          /\ last'.ran <=> (last'.kind = "timer" \/ timer = NoTimer)
          /\ ~last'.ran => last'.launched = NoLaunch
          /\ \A p \in DOMAIN MidEntries :
              /\ MidEntries[p].fetching => last'.launched[p] = 0
              /\ (last'.ran /\ ~MidEntries[p].fetching
                    /\ MidEntries[p].lastFetched + expireDuration < now)
                   => SweptIn(p)]_vars

\* C10 witness: a timer fire swept an overdue entry while another entry, at
\* least as old, was fetching and was left alone.
SweepWitness ==
    /\ last.kind = "timer"
    /\ \E p, q \in DOMAIN entries :
          /\ last.launched[p] = 1 /\ last.launched[q] = 0
          /\ entries[q].fetching
          /\ entries[q].lastFetched <= entries[p].lastFetched

\* The entries the scheduler looks at: those with fetching = FALSE.
Eligible(ents) == {p \in DOMAIN ents : ~ents[p].fetching}

\* What a pass that arms the timer chooses: the table it leaves has an entry
\* that is not fetching, none of them is overdue, and the deadline is the
\* least lastFetched + TTL among them, in the future of the pass.
ArmStep ==
    (PassStep /\ last'.ran /\ timer' # NoTimer)
        => /\ timer = NoTimer \/ last'.kind = "timer"
           /\ Eligible(entries') # {}
           /\ \A p \in Eligible(entries') :
                 /\ entries'[p].lastFetched + expireDuration >= now'
                 /\ timer'[1] <= entries'[p].lastFetched + expireDuration
           /\ \E p \in Eligible(entries') :
                 timer'[1] = entries'[p].lastFetched + expireDuration
           /\ timer'[1] > now'

\* C11.  Scenario E: a scheduler pass that arms the timer (none was armed,
\* some entry has fetching = FALSE, none is overdue) arms it for exactly the
\* minimum of lastFetched + TTL over the entries with fetching = FALSE;
\* fetching entries do not count and a farther deadline is never chosen.
ArmsNearestDeadline == [][ArmStep]_vars

\* C11 witness: with two entries expiring at different future times, neither
\* fetching, the pass armed the timer for the nearer one.
ArmsNearestWitness ==
    /\ last.ran
    /\ timer # NoTimer
    /\ \E p, q \in Eligible(entries) :
          /\ entries[p].lastFetched < entries[q].lastFetched
          /\ timer[1] = entries[p].lastFetched + expireDuration

\* A pass armed the timer for an entry while an older entry was fetching.
ArmsIgnoringFetchingWitness ==
    /\ last.ran
    /\ timer # NoTimer
    /\ \E p \in Eligible(entries), q \in DOMAIN entries :
          /\ entries[q].fetching
          /\ entries[q].lastFetched < entries[p].lastFetched
          /\ timer[1] = entries[p].lastFetched + expireDuration

\* One iteration of the loop of serviceTimer on the table ents with every
\* time.Now() of the iteration returning t: it returns because nothing is
\* expiring, or arms a timer for a future deadline, or its sweep converts at
\* least one entry to fetching.
IterationProgresses(ents, t) ==
    LET fe == FetchExpired(ents, t)
        st == ShortestTimeout(fe.entries, t)
    IN  \/ ~st.expiring
        \/ st.duration > 0
        \/ fe.launched # {}

\* C12 as stated.  Scheduler termination: for every table and every value of
\* the current time at which a pass can get into its loop (no timer armed),
\* the iteration arms a future timer, finds nothing to do or converts an
\* entry, so the loop ends after finitely many iterations; in particular no
\* pass has to wait for the clock to move (last.spins = 0).
EveryIterationProgresses ==
    /\ last.spins = 0
    /\ timer = NoTimer => IterationProgresses(entries, now)

\* What a step does that processes a request message: the entry it stores is
\* the one it found (a new one if there was none) with count one higher; it
\* closes and sends on no reply channel, does not panic, and leaves callers
\* and every other entry alone.  The only other changes of the step are those
\* of the scheduler pass that follows: the entries it sweeps become fetching,
\* with one background fetch each.
RequestStep ==
    (IsActorStep /\ last'.kind = "request")
        => LET p == last'.path
           IN  /\ ~panicked'
               /\ last'.closed = {} /\ last'.sent = {}
               /\ client' = client
               /\ last'.entry = [Found(p) EXCEPT !.count = @ + 1]
               /\ p \notin DOMAIN entries
                     => last'.entry = [count |-> 1, lastFetched |-> now,
                                       fetching |-> FALSE, waiters |-> <<>>]
               /\ DOMAIN entries' = DOMAIN entries \cup {p}
               /\ \A q \in DOMAIN entries' :
                     LET e == IF q = p THEN last'.entry ELSE entries[q]
                     IN  entries'[q] = IF last'.launched[q] > 0
                                       THEN [e EXCEPT !.fetching = TRUE]
                                       ELSE e
               /\ bg' = Launch(bg, last'.launched)
               /\ ~last'.ran => (last'.launched = NoLaunch /\ timer' = timer)
               /\ entries = << >>
                     => /\ DOMAIN entries' = {p}
                        /\ entries'[p].count = 1
                        /\ ~entries'[p].fetching

\* C13.  request(P) only counts: it creates the entry for P if absent (not
\* fetching, no waiters) and increases its count by exactly 1; fetching,
\* lastFetched and waiters of an existing entry and every other entry are as
\* before, no reply channel is closed or sent to, and it never fails.  From
\* the empty table, request("/a") yields one entry with count 1, not fetching.
RequestOnlyCounts == [][RequestStep]_vars

\* C13 witness: a request was processed for an entry that was fetching with a
\* follower queued, and the entry still is, with the same waiter.
RequestOnlyCountsWitness ==
    /\ last.kind = "request"
    /\ last.entry.count = 1
    /\ last.entry.fetching
    /\ last.entry.waiters # <<>>
    /\ entries[last.path] = last.entry
    /\ \E c \in Clients : client[c].st = "waiting" /\ client[c].path = last.path

\* C14 as stated.  Refresh sweep predicate: the sweep run at the current time
\* marks fetching, and launches a background fetch for, every entry with
\* fetching = FALSE whose lastFetched + TTL is at or before now, the boundary
\* lastFetched + TTL = now included.
SweepsAtOrBeforeNow ==
    \A p \in Eligible(entries) :
        entries[p].lastFetched + expireDuration <= now
            => /\ p \in FetchExpired(entries, now).launched
               /\ FetchExpired(entries, now).entries[p].fetching

\* The deadline d is the earliest lastFetched + TTL among the entries of ents
\* that are not fetching.
IsEarliestDeadline(d, ents) ==
    /\ \E p \in Eligible(ents) : d = ents[p].lastFetched + expireDuration
    /\ \A p \in Eligible(ents) : d <= ents[p].lastFetched + expireDuration

\* C15 as stated.  Timer state after every event: whenever the actor has
\* finished an event and its scheduler pass, at most one timer is armed; an
\* armed timer's deadline equals the earliest lastFetched + TTL among the
\* entries with fetching = FALSE at that moment, and no timer is armed if no
\* entry has fetching = FALSE.
TimerTracksEarliest ==
    /\ Len(timer) <= 1
    /\ timer # NoTimer => IsEarliestDeadline(timer[1], entries)
    /\ Eligible(entries) = {} => timer = NoTimer

\* What a step of the actor does to the timer.
TimerStep ==
    /\ ~PassStep => timer' = timer
    /\ PassStep
        => /\ Len(timer') <= 1
           /\ last'.ran <=> (last'.kind = "timer" \/ timer = NoTimer)
           /\ ~last'.ran => timer' = timer
           /\ last'.ran =>
                 /\ timer' # NoTimer
                       <=> \E p \in Eligible(entries') : entries'[p].lastFetched < now'
                 /\ timer' # NoTimer => IsEarliestDeadline(timer'[1], entries')

\* C15 as amended.  At most one timer is armed.  A scheduler pass that finds a
\* timer armed leaves it untouched: it is not re-derived and not disarmed,
\* whatever the event did to the entries.  A pass that finds none armed (after
\* a timer fire, or after a message while none is armed) re-derives it: a
\* timer is armed exactly if some entry with fetching = FALSE has lastFetched
\* before the pass's clock reading, and its deadline is the earliest
\* lastFetched + TTL among the entries with fetching = FALSE; in particular
\* none is armed if no entry has fetching = FALSE.
TimerRederivedWhenNotArmed == [][TimerStep]_vars

\* C15 witness: a message was processed with the timer armed, the pass left
\* the timer as it was, and no entry is left that is not fetching.
TimerLeftArmedWitness ==
    /\ last.kind = "fetching"
    /\ ~last.ran
    /\ timer # NoTimer
    /\ DOMAIN entries # {}
    /\ Eligible(entries) = {}

\* The sweep at any clock reading t launches a fetch only for entries whose
\* lastFetched + TTL is before t.
SweepOnlyOverdue ==
    \A t \in 0..(MaxTime + expireDuration) :
        \A p \in FetchExpired(entries, t).launched :
            /\ ~entries[p].fetching
            /\ entries[p].lastFetched + expireDuration < t

\* The background fetches a step launches are for entries that, as the event
\* of the step left them (a fetched message has just stamped lastFetched),
\* were not fetching and had lastFetched + TTL in the past; one fetch each.
NoEarlyRetryStep ==
    /\ ~PassStep => \A p \in Paths : Len(bg'[p]) <= Len(bg[p])
    /\ PassStep
        => \A p \in Paths :
              last'.launched[p] > 0
                  => /\ last'.launched[p] = 1
                     /\ p \in DOMAIN MidEntries
                     /\ ~MidEntries[p].fetching
                     /\ MidEntries[p].lastFetched + expireDuration < now'
                     /\ (last'.kind = "fetched" /\ last'.path = p)
                           => last'.entry.lastFetched + expireDuration < now'

\* C17.  No early retry: after a fetched message for P is processed at time t,
\* with data or without, no background fetch for P is launched before
\* t + TTL; the sweep never launches a fetch for an entry whose
\* lastFetched + TTL is still in the future.
NoEarlyRetry == []SweepOnlyOverdue /\ [][NoEarlyRetryStep]_vars

\* C17 witness: a fetch failed, the pass after its fetched message ran the
\* sweep (no timer was armed) and swept another entry, but launched nothing
\* for the failed path, which waits for its next scheduled refresh.
NoEarlyRetryWitness ==
    /\ last.kind = "fetched"
    /\ ~last.data.present
    /\ last.ran
    /\ last.launched[last.path] = 0
    /\ ~entries[last.path].fetching
    /\ entries[last.path].lastFetched + expireDuration > now
    /\ \E q \in Paths : last.launched[q] = 1

\* C19.  The timer is never late: whenever a timer is armed, its deadline is
\* at or before lastFetched + TTL of every entry with fetching = FALSE, so a
\* pass that skips the sweep because the timer is armed leaves no entry
\* waiting beyond the pending timer fire.
TimerNeverLate ==
    timer # NoTimer
        => \A p \in Eligible(entries) :
              timer[1] <= entries[p].lastFetched + expireDuration

\* C19 witness: the timer is armed, the last pass returned early, and an entry
\* re-fetched after the timer was armed is due strictly later than the timer,
\* while the timer's own entry is fetching.
TimerNeverLateWitness ==
    /\ timer # NoTimer
    /\ ~last.ran
    /\ last.kind = "fetched"
    /\ entries[last.path].lastFetched + expireDuration > timer[1]
    /\ \E q \in DOMAIN entries :
          entries[q].fetching /\ entries[q].lastFetched + expireDuration = timer[1]

\* C20.  The fatal state is unreachable when the clients follow the protocol:
\* with every caller running the executor once per leader grant and never
\* otherwise, under every interleaving of client messages, background
\* refreshes, fetch completions and timer fires, each fetched message is
\* processed while its path is fetching, and the actor never panics.
NeverPanics ==
    /\ ~panicked
    /\ last.kind # "panic"
    /\ \A pe \in SendingExecs : IsFetching(pe[1])

\* C20 witness: the fetched message of a leader was processed while a
\* background fetch launched by the sweep is blocked sending its own, for the
\* other path, and a timer is armed.
NeverPanicsWitness ==
    /\ last.kind = "fetched"
    /\ last.who \in Clients
    /\ ~panicked
    /\ timer # NoTimer
    /\ \E p \in Paths \ {last.path} :
          /\ Len(bg[p]) = 1
          /\ bg[p][1].phase = "send"
          /\ entries[p].fetching

\* The reply channels queued on p.
WaitersOf(ents, p) == IF p \in DOMAIN ents THEN Range(ents[p].waiters) ELSE {}

\* The queued channels of p an unfinished fetched case has yet to send to.
Unserved(p) ==
    IF actor.pc = "send" /\ actor.path = p
    THEN {entries[p].waiters[j] : j \in actor.idx..Len(entries[p].waiters)}
    ELSE WaitersOf(entries, p)

\* In every state: the waiters of a path, less those an unfinished fetched
\* case has served already, are the channels of the followers of the path,
\* each queued once; waiters exist only while the path is fetching or its
\* fetched case is being completed.
WaitersAreFollowers ==
    \A p \in Paths :
        /\ Unserved(p) = FollowersOn(client, p)
        /\ WaitersOf(entries, p) \ Unserved(p) = IF actor.path = p THEN SentSoFar ELSE {}
        /\ \A c \in WaitersOf(entries, p) \ Unserved(p) : client[c].st = "idle"
        /\ p \in DOMAIN entries =>
              /\ Cardinality(Range(entries[p].waiters)) = Len(entries[p].waiters)
              /\ entries[p].waiters # <<>>
                    => \/ entries[p].fetching
                       \/ actor.pc = "send" /\ actor.path = p

\* The followers that get their outcome in a step.
Outcomes ==
    {c \in Clients : client[c].st \in {"queued", "waiting"} /\ client'[c].st = "idle"}

\* In every step: a channel joins the waiters of p only by its own fetching
\* message processed while p is fetching, and leaves them only when a fetched
\* case for p completes.  A channel gets an outcome only if it had none: a
\* new channel closed for its leader (it is then in no waiter list and gets
\* nothing more), or a queued one sent the bytes or closed, never both and
\* never again.
WaiterStep ==
    /\ \A p \in Paths :
          /\ \A c \in WaitersOf(entries', p) \ WaitersOf(entries, p) :
                /\ last'.kind = "fetching" /\ last'.path = p /\ last'.who = c
                /\ IsFetching(p)
                /\ last'.closed = {} /\ last'.sent = {}
          /\ \A c \in WaitersOf(entries, p) \ WaitersOf(entries', p) :
                /\ last'.kind = "fetched" /\ last'.path = p
                /\ c \in last'.sent \cup last'.closed
    /\ \A c \in Outcomes :
          /\ last'.kind \in {"fetched", "sending"}
          /\ last'.path = client[c].path
          /\ c \in Unserved(last'.path)
          /\ c \in (last'.sent \cup last'.closed) \ SentSoFar
          /\ c \in last'.sent => client[c].st = "waiting"
    /\ last' # last =>
          /\ last'.sent \cap last'.closed = {}
          /\ last'.kind = "fetching" =>
                /\ client[last'.who].st = "idle"
                /\ last'.closed \subseteq {last'.who}
                /\ last'.closed = {last'.who} <=> ~Found(last'.path).fetching
                /\ last'.closed = {} <=> last'.who \in WaitersOf(entries', last'.path)
                /\ last'.sent = {}
          /\ last'.kind \in {"fetched", "sending"} =>
                /\ (last'.sent \cup last'.closed) \ SentSoFar = Outcomes
                /\ last'.sent \cup last'.closed \subseteq WaitersOf(entries, last'.path)
          /\ last'.kind = "fetched" =>
                /\ last'.sent \cup last'.closed = WaitersOf(entries, last'.path)
                /\ WaitersOf(entries', last'.path) = {}
          /\ last'.kind \notin {"fetching", "fetched", "sending"} =>
                last'.sent \cup last'.closed = {}

\* C18.  I2, waiter membership: a reply channel is in the waiters of P exactly
\* from the step that processed its fetching message while P was fetching
\* until the next fetched message for P, which removes it; waiters is
\* non-empty only while fetching = TRUE; every reply channel gets exactly one
\* outcome (closed as leader, or the bytes, or closed on failure), never a
\* second close and never a send after a close.
WaiterMembership == []WaitersAreFollowers /\ [][WaiterStep]_vars

\* C18 witness: a leader's fetched message without data closed the channel of
\* the follower queued behind it, emptying the waiters; the leader's own
\* channel had been closed at the grant and was not among them.
WaiterMembershipWitness ==
    /\ last.kind = "fetched"
    /\ last.who \in Clients
    /\ ~last.data.present
    /\ last.closed # {}
    /\ last.who \notin last.closed
    /\ entries[last.path].waiters = <<>>
    /\ \A c \in last.closed : client[c].st = "idle"

\* C16 as stated.  The actor blocks only while waiting for the next message or
\* a timer fire: processing a fetched message with data and queued waiters
\* completes without the actor waiting on any follower, so a follower that is
\* slow to receive on its reply channel, or never does, cannot keep messages
\* and timer fires for other paths from being processed.
ActorWaitsOnlyInSelect ==
    /\ actor.pc = "select"
    /\ (timer # NoTimer /\ now >= timer[1]) => ENABLED TimerFire

\* The actor is blocked in the send to a follower that is not receiving while
\* the timer is due: neither the timer fire nor a request for another path is
\* processed.
StalledByFollower ==
    /\ actor.pc = "send"
    /\ client[entries[actor.path].waiters[actor.idx]].st = "queued"
    /\ timer # NoTimer /\ now >= timer[1]
    /\ ~ENABLED TimerFire
    /\ ~ENABLED HandleRequest("/b", now)

====
